---- MODULE Spec2Model ----
(***************************************************************************)
(* Model of the GharintoLeap backend test harnesses:                       *)
(*   backend_test.py          APITester, run_comprehensive_tests, main     *)
(*   focused_backend_test.py  FocusedAPITester, run_focused_tests, main    *)
(*   backend_test_focused.py  make_request (module level)                  *)
(* The backend is the environment: every HTTP call is answered by a        *)
(* response the backend chooses.                                           *)
(***************************************************************************)
EXTENDS Integers, Sequences, FiniteSets, TLC

VARIABLES
    harness,       \* which tester object runs: "APITester" | "FocusedAPITester"
    backend,       \* environment: "up" | "down" (down: every connection is refused)
    faults,        \* environment: number of unexpected answers given so far
    pc,            \* position of the run
    idx,           \* position of the roster loop (for user_type ... in test_users)
    tokens,        \* self.tokens
    test_results,  \* self.test_results
    calls,         \* the HTTP requests issued so far, in order
    locals,        \* local variables of the running suite that later steps read
    run,           \* what the run did: caught exception, summary, return value, exit code
    request,       \* input drawn at the start: make_request's arguments and the backend's
                   \* answer, or the order of the security probes and their answers
    outcome,       \* make_request under test: what it returned
    scan           \* locals of the scripts (marketplace_api_test, attendance_fix_test, backend_test_focused)

vars == <<harness, backend, faults, pc, idx, tokens, test_results, calls, locals,
          run, request, outcome, scan>>

(***************************************************************************)
(* Bounds of the model.                                                    *)
(***************************************************************************)
\* how many unexpected answers the backend gives in one run
MaxFaults == 1
\* the largest passed count and the largest failed count a summary is computed
\* from when the summary is looked at on its own (totals stay below 80, up to
\* which the float success_rate formats as its exact value does)
MaxCount == 19

(***************************************************************************)
(* Python values, as far as the harness looks at them.                     *)
(***************************************************************************)
None == [k |-> "none"]
Absent == [k |-> "absent"]
Raise == [k |-> "raise"]
PyBool(b) == [k |-> "bool", b |-> b]
PyStr(s) == [k |-> "str", s |-> s]
PyInt(i) == [k |-> "int", i |-> i]
PyList(l) == [k |-> "list", l |-> l]

\* the keys of a response body the harnesses read, and one they do not
Keys == {"status", "token", "error", "id", "users", "projects", "leads",
         "materials", "employees", "other"}

PyDict(d) ==
    [k |-> "dict",
     d |-> [key \in Keys |-> IF key \in DOMAIN d THEN d[key] ELSE Absent]]

EmptyDict == PyDict(<<>>)

\* bool(v)
Truthy(v) ==
    CASE v.k = "none" -> FALSE
      [] v.k = "bool" -> v.b
      [] v.k = "str" -> v.s # ""
      [] v.k = "int" -> v.i # 0
      [] v.k = "list" -> v.l # <<>>
      [] v.k = "dict" -> \E key \in Keys : v.d[key] # Absent
      [] OTHER -> FALSE

\* v.get(key): only a dict has .get, anything else raises AttributeError
Get(v, key) ==
    IF v.k # "dict" THEN Raise
    ELSE IF v.d[key] = Absent THEN None ELSE v.d[key]

\* v.get(key, default)
GetDefault(v, key, default) ==
    IF v.k # "dict" THEN Raise
    ELSE IF v.d[key] = Absent THEN default ELSE v.d[key]

\* a and b: b is evaluated only when a is truthy
And(a, b) ==
    IF a.k = "raise" THEN Raise
    ELSE IF Truthy(a) THEN b ELSE a

\* not a
Not(a) ==
    IF a.k = "raise" THEN Raise ELSE PyBool(~Truthy(a))

\* f"{v}" for the identifiers a backend returns
Format(v) ==
    CASE v.k = "int" -> ToString(v.i)
      [] v.k = "str" -> v.s
      [] v.k = "bool" -> IF v.b THEN "True" ELSE "False"
      [] OTHER -> "None"

(***************************************************************************)
(* HTTP responses (the backend's answers) and make_request.                *)
(***************************************************************************)
\* exceptions of the requests library raised instead of a response
TransportExceptions == {"ConnectTimeout", "ReadTimeout", "ConnectionError", "TooManyRedirects"}

IsTimeout(e) == e \in {"ConnectTimeout", "ReadTimeout"}
IsConnectionError(e) == e \in {"ConnectTimeout", "ConnectionError"}

\* a response: either a transport exception, or a status line, the
\* content-type (JSON or not) and a body: empty, text that is no JSON, or
\* the text of a JSON value
Failure(e) == [exc |-> e, status |-> 0, json_ctype |-> FALSE, bk |-> "empty", val |-> None]
Http(status, json_ctype, bk, val) ==
    [exc |-> "none", status |-> status, json_ctype |-> json_ctype, bk |-> bk, val |-> val]

\* mutant: ok only for the 2xx range
ResponseOk2xx(status) == 200 =< status /\ status < 300

\* response.ok: raise_for_status() raises for 400 <= status < 600 only
ResponseOk(status) == ~(400 =< status /\ status < 600)

\* response.text
ResponseText(resp) ==
    CASE resp.bk = "empty" -> ""
      [] resp.bk = "text" -> "<html>"
      [] OTHER -> "<json text>"

\* the dict make_request returns; raised marks an exception leaving make_request
Returned(status, ok, data) ==
    [raised |-> FALSE, status |-> status, ok |-> ok, has_data |-> TRUE,
     data |-> data, error |-> ""]
ErrorOutcome(msg) ==
    [raised |-> FALSE, status |-> 0, ok |-> FALSE, has_data |-> FALSE,
     data |-> None, error |-> msg]
Propagated(e) ==
    [raised |-> TRUE, status |-> 0, ok |-> FALSE, has_data |-> FALSE,
     data |-> None, error |-> e]

\* the try body of make_request: the exception it raises, or its return value
TryBody(methods, method, resp) ==
    IF method \notin methods
    THEN [exc |-> "ValueError", ret |-> ErrorOutcome("")]
    ELSE IF resp.exc # "none"
    THEN [exc |-> resp.exc, ret |-> ErrorOutcome("")]
    ELSE IF resp.bk # "empty" /\ resp.json_ctype
    THEN IF resp.bk = "json"
         THEN [exc |-> "none",
               ret |-> Returned(resp.status, ResponseOk(resp.status), resp.val)]
         ELSE [exc |-> "JSONDecodeError", ret |-> ErrorOutcome("")]
    ELSE [exc |-> "none",
          ret |-> Returned(resp.status, ResponseOk(resp.status),
                           PyStr(ResponseText(resp)))]

\* mutant: the handlers stop at the two named exception classes
make_request_narrow(method, resp) ==
    LET r == TryBody({"GET", "POST", "PUT", "DELETE"}, method, resp) IN
    IF r.exc = "none" THEN r.ret
    ELSE IF IsTimeout(r.exc) THEN ErrorOutcome("Request timeout")
    ELSE IF IsConnectionError(r.exc) THEN ErrorOutcome("Connection error")
    ELSE Propagated(r.exc)

\* APITester.make_request and FocusedAPITester.make_request (the same code)
make_request(method, resp) ==
    LET r == TryBody({"GET", "POST", "PUT", "DELETE"}, method, resp) IN
    IF r.exc = "none" THEN r.ret
    ELSE IF IsTimeout(r.exc) THEN ErrorOutcome("Request timeout")
    ELSE IF IsConnectionError(r.exc) THEN ErrorOutcome("Connection error")
    ELSE ErrorOutcome(r.exc)

\* backend_test_focused.make_request: no DELETE, one handler
focused_make_request(method, resp) ==
    LET r == TryBody({"GET", "POST", "PUT"}, method, resp) IN
    IF r.exc = "none" THEN r.ret ELSE ErrorOutcome(r.exc)

\* outcome.get('data', {})
DataOrEmpty(o) == IF o.has_data THEN o.data ELSE EmptyDict

\* outcome["data"]: KeyError when the outcome has no data
Data(o) == IF o.has_data THEN o.data ELSE Raise

(***************************************************************************)
(* The result aggregate.                                                   *)
(***************************************************************************)
TestResult(name, passed, details) ==
    [name |-> name, passed |-> passed, details |-> details]

\* mutant: the counter is bumped, the entry is appended only for a pass
log_test_lossy(tr, name, passed, details) ==
    [passed |-> tr.passed + (IF Truthy(passed) THEN 1 ELSE 0),
     failed |-> tr.failed + (IF Truthy(passed) THEN 0 ELSE 1),
     details |-> IF Truthy(passed)
                 THEN Append(tr.details, TestResult(name, passed, details))
                 ELSE tr.details]

\* log_test: test_results after log_test(name, passed, details)
log_test(tr, name, passed, details) ==
    [passed |-> tr.passed + (IF Truthy(passed) THEN 1 ELSE 0),
     failed |-> tr.failed + (IF Truthy(passed) THEN 0 ELSE 1),
     details |-> Append(tr.details, TestResult(name, passed, details))]

\* f"Status: {outcome['status']}"
StatusDetails(o) == PyStr("Status: " \o ToString(o.status))

(***************************************************************************)
(* The backend.                                                            *)
(***************************************************************************)
ErrorBody == PyDict([error |-> PyStr("rejected")])

\* a 2xx answer with a JSON object in which every key the harness reads is set
Accepting ==
    Http(200, TRUE, "json",
         PyDict([status |-> PyStr("ok"), token |-> PyStr("tok-any"), id |-> PyInt(1)]))

\* a redirect status that requests hands back (no Location to follow), with
\* a JSON object as its body
Redirect ==
    Http(302, TRUE, "json",
         PyDict([status |-> PyStr("ok"), token |-> PyStr("tok-any"), id |-> PyInt(1)]))

\* the answers a backend gives when it does not answer as the harness expects
Unexpected ==
    { Accepting,
      Redirect,
      Http(200, TRUE, "json", EmptyDict),
      Http(200, TRUE, "json", PyDict([token |-> PyStr("")])),
      Http(201, TRUE, "json", PyDict([id |-> PyInt(0)])),
      Http(201, TRUE, "json", PyDict([id |-> PyStr("a7")])),
      Http(200, TRUE, "json", PyList(<<>>)),
      Http(200, FALSE, "text", None),
      Http(200, TRUE, "text", None),
      Http(401, TRUE, "json", ErrorBody),
      Http(404, FALSE, "text", None),
      Failure("ReadTimeout") }

\* the answers the backend may give to a call whose expected answers are given
Answers(expected) ==
    IF backend = "down" THEN {Failure("ConnectionError")}
    ELSE expected \cup (IF faults < MaxFaults THEN Unexpected ELSE {})

Ok200(d) == Http(200, TRUE, "json", PyDict(d))
Ok201(d) == Http(201, TRUE, "json", PyDict(d))
Rejected(status) == Http(status, TRUE, "json", ErrorBody)


(***************************************************************************)
(* The run: state after construction, and the steps' common parts.         *)
(***************************************************************************)
Roles == {"admin", "superadmin", "customer", "designer", "vendor", "pm", "finance"}

\* APITester.test_users, in the order the dict is iterated
test_users == <<"admin", "superadmin", "customer", "designer", "vendor", "pm", "finance">>
\* FocusedAPITester.test_users
focused_test_users == <<"admin", "customer">>

NoOutcome == ErrorOutcome("unset")
\* nothing printed, returned or exited yet: rate is the printed success rate
\* in tenths of a percent, tier the readiness line, skipped the suites that
\* printed that they are skipped
NoRun == [caught |-> FALSE, summary |-> FALSE, returned |-> "unset", exit_code |-> -1,
          rate |-> -1, tier |-> "unset", skipped |-> {}]
NoLocals == [users |-> NoOutcome, materials |-> NoOutcome, id |-> None]
\* the scripts' locals before they run: the endpoint list, the token, the
\* existing and missing lists and the printed coverage in tenths of a percent
NoScan == [endpoints |-> <<>>, token |-> None, existing |-> <<>>, missing |-> <<>>,
           coverage |-> -1]
NoRequest == [impl |-> "none", method |-> "GET", resp |-> Failure("ConnectionError")]

\* the timeout make_request passes to requests when the caller gives none
TIMEOUT == 30

\* mutant: a role without an entry gets a token left from an earlier run
TokenOfStale(role) == IF tokens[role] = Absent THEN PyStr("tok-stale") ELSE tokens[role]

\* self.tokens.get(role)
TokenOf(role) == IF tokens[role] = Absent THEN None ELSE tokens[role]

\* the request as it goes on the wire: the path as its segments, the
\* Authorization header set only for a truthy token; data names the JSON
\* payload where the model needs it
Wire(method, path, data, token) ==
    [method |-> method, path |-> path, data |-> data, has_auth |-> Truthy(token),
     bearer |-> IF Truthy(token) THEN Format(token) ELSE "", timeout |-> TIMEOUT]

\* the call is issued and answered: calls keeps the request with the outcome
\* make_request returned for it
Send(method, path, data, token, expected, resp) ==
    /\ calls' = Append(calls, [req |-> Wire(method, path, data, token),
                               out |-> make_request(method, resp)])
    /\ faults' = IF backend = "up" /\ resp \notin expected THEN faults + 1 ELSE faults

\* an exception leaves the suite: the except clause of the run prints it and
\* returns False
Caught == [run EXCEPT !.caught = TRUE, !.returned = "False"]

\* what follows a log_test inside a suite: the next position and the locals
\* kept, or an exception raised on the way there
Goto(to) == [raise |-> FALSE, pc |-> to, locals |-> locals]
Raised == [raise |-> TRUE, pc |-> "returned", locals |-> locals]
LeaveSuite(to) == [raise |-> FALSE, pc |-> to, locals |-> NoLocals]

\* one call answered by resp, its log_test(name, p, d) and the code that runs
\* up to the next call, which ends in n; p, d and n are computed from the
\* outcome of the call
Step(at, method, path, data, token, expected, resp, name, p, d, n) ==
    /\ pc = at
    /\ Send(method, path, data, token, expected, resp)
    /\ IF p.k = "raise" \/ d.k = "raise"
       THEN /\ run' = Caught
            /\ pc' = "returned"
            /\ UNCHANGED <<test_results, locals>>
       ELSE /\ test_results' = log_test(test_results, name, p, d)
            /\ run' = IF n.raise THEN Caught ELSE run
            /\ pc' = n.pc
            /\ locals' = n.locals
    /\ UNCHANGED <<harness, backend, idx, tokens, request, outcome, scan>>

\* the if at the head of a suite: no call is made
Enter(at, to) ==
    /\ pc = at
    /\ pc' = to
    /\ UNCHANGED <<harness, backend, faults, idx, tokens, test_results, calls,
                   locals, run, request, outcome, scan>>

\* the if at the head of a suite that returns without the admin token:
\* print("... token not available, skipping <suite> tests"); return
EnterOrSkip(at, to, skip, suite) ==
    /\ pc = at
    /\ pc' = IF Truthy(TokenOf("admin")) THEN to ELSE skip
    /\ run' = IF Truthy(TokenOf("admin")) THEN run
              ELSE [run EXCEPT !.skipped = @ \cup {suite}]
    /\ UNCHANGED <<harness, backend, faults, idx, tokens, test_results, calls,
                   locals, request, outcome, scan>>

\* mutant: every outcome that is not ok counts as the rejection
RejectedWithAny(o, status) == Not(PyBool(o.ok))

\* passed = not outcome["ok"] and outcome["status"] == status
RejectedWith(o, status) == And(Not(PyBool(o.ok)), PyBool(o.status = status))

\* passed = outcome["ok"]
PassedOk(o) == PyBool(o.ok)


(***************************************************************************)
(* APITester: the suites, in the order run_comprehensive_tests calls them. *)
(***************************************************************************)
Email(user_type) == user_type \o "@gharinto.com"

test_health_endpoints ==
    \/ (\E resp \in Answers({Ok200([status |-> PyStr("ok")])}) :
          LET o == make_request("GET", resp) IN
          Step("health", "GET", <<"health">>, "", None,
               {Ok200([status |-> PyStr("ok")])}, resp,
               "System Health Check",
               And(PyBool(o.ok),
                           LET st == Get(Data(o), "status") IN
                           IF st.k = "raise" THEN Raise ELSE PyBool(st = PyStr("ok"))),
               GetDefault(DataOrEmpty(o), "status", PyStr("N/A")),
               Goto("health_db")))
    \/ (\E resp \in Answers({Ok200([status |-> PyStr("ok")])}) :
          LET o == make_request("GET", resp) IN
          Step("health_db", "GET", <<"health", "db">>, "", None,
               {Ok200([status |-> PyStr("ok")])}, resp,
               "Database Health Check",
               PassedOk(o),
               StatusDetails(o),
               Goto("auth_register")))

\* mutant: an ok login caches a fixed string
LoginTokenFixed(login_response) ==
    And(PyBool(login_response.ok), PyStr("tok-fixed"))

\* login_response["ok"] and login_response["data"].get("token")
LoginToken(login_response) ==
    And(PyBool(login_response.ok), Get(Data(login_response), "token"))

\* the roster loop of test_authentication: one login per pass
RosterLogin ==
    /\ pc = "auth_login"
    /\ LET user_type == test_users[idx]
           expected == {Ok200([token |-> PyStr("tok-" \o user_type)])}
       IN
       \E resp \in Answers(expected) :
         LET login_response == make_request("POST", resp)
             token == LoginToken(login_response)
             error == GetDefault(DataOrEmpty(login_response), "error", PyStr("Unknown"))
         IN  /\ Send("POST", <<"auth", "login">>, Email(user_type), None, expected, resp)
             /\ IF token.k = "raise" \/ (~Truthy(token) /\ error.k = "raise")
                THEN /\ run' = Caught
                     /\ pc' = "returned"
                     /\ UNCHANGED <<tokens, test_results, idx>>
                ELSE /\ IF Truthy(token)
                        THEN /\ tokens' = [tokens EXCEPT ![user_type] = token]
                             /\ test_results' =
                                  log_test(test_results, "Login " \o user_type,
                                           PyBool(TRUE), PyStr("Token received"))
                        ELSE /\ tokens' = tokens
                             /\ test_results' =
                                  log_test(test_results, "Login " \o user_type,
                                           PyBool(FALSE), StatusDetails(login_response))
                     /\ run' = run
                     /\ IF idx < Len(test_users)
                        THEN idx' = idx + 1 /\ pc' = "auth_login"
                        ELSE idx' = 1 /\ pc' = "auth_invalid"
    /\ UNCHANGED <<harness, backend, locals, request, outcome, scan>>

test_authentication ==
    \/ (\E resp \in Answers({Ok201([token |-> PyStr("tok-new")])}) :
          LET o == make_request("POST", resp) IN
          Step("auth_register", "POST", <<"auth", "register">>, "testuser@test.com", None,
               {Ok201([token |-> PyStr("tok-new")])}, resp,
               "User Registration",
               And(PyBool(o.ok), Get(Data(o), "token")),
               StatusDetails(o),
               Goto("auth_login")))
    \/ RosterLogin
    \/ (\E resp \in Answers({Rejected(401)}) :
          LET o == make_request("POST", resp) IN
          Step("auth_invalid", "POST", <<"auth", "login">>, "invalid@test.com", None,
               {Rejected(401)}, resp,
               "Invalid Login Rejection",
               RejectedWith(o, 401),
               StatusDetails(o),
               Goto("auth_forgot")))
    \/ (\E resp \in Answers({Ok200([other |-> PyStr("sent")])}) :
          LET o == make_request("POST", resp) IN
          Step("auth_forgot", "POST", <<"auth", "forgot-password">>, Email("customer"), None,
               {Ok200([other |-> PyStr("sent")])}, resp,
               "Forgot Password",
               PassedOk(o),
               StatusDetails(o),
               Goto("user_management")))

\* isinstance(outcome["data"].get(key), list), behind outcome["ok"] and ...
PassedList(o, key) ==
    And(PyBool(o.ok),
        LET v == Get(Data(o), key) IN
        IF v.k = "raise" THEN Raise ELSE PyBool(v.k = "list"))

\* len(outcome.get('data', {}).get(key, [])) inside the details string
CountDetails(o, key) ==
    LET v == GetDefault(DataOrEmpty(o), key, PyList(<<>>)) IN
    IF v.k \in {"list", "str", "dict"} THEN StatusDetails(o) ELSE Raise

\* outcome["ok"] and outcome["data"].get(key)
OkAndGet(o, key) == And(PyBool(o.ok), Get(Data(o), key))

\* outcome["data"][key][0]["id"], reached when OkAndGet(o, key) is truthy
FirstId(o, key) ==
    LET v == Get(Data(o), key) IN
    IF v.k = "list" /\ v.l # <<>> /\ v.l[1].k = "dict" /\ v.l[1].d["id"] # Absent
    THEN v.l[1].d["id"]
    ELSE Raise

\* after the last unconditional call of a suite: the details call on the
\* first element of the list fetched earlier, when there is one
AfterListed(listed, key, to, skip) ==
    LET c == OkAndGet(listed, key) IN
    IF c.k = "raise" THEN Raised
    ELSE IF ~Truthy(c) THEN LeaveSuite(skip)
    ELSE LET id == FirstId(listed, key) IN
         IF id.k = "raise" THEN Raised
         ELSE [raise |-> FALSE, pc |-> to, locals |-> [locals EXCEPT !.id = id]]

\* mutant: the follow-up calls go to a fixed identifier
AfterCreateFixed(o, to, skip) ==
    LET c == OkAndGet(o, "id") IN
    IF c.k = "raise" THEN Raised
    ELSE IF ~Truthy(c) THEN LeaveSuite(skip)
    ELSE [raise |-> FALSE, pc |-> to, locals |-> [locals EXCEPT !.id = PyInt(1)]]

\* mutant: the follow-up calls are made whatever the creation returned
AfterCreateUnguarded(o, to, skip) ==
    LET c == OkAndGet(o, "id") IN
    IF c.k = "raise" THEN Raised
    ELSE [raise |-> FALSE, pc |-> to, locals |-> [locals EXCEPT !.id = c]]

\* if create["ok"] and create["data"].get("id"): the identifier is kept for
\* the follow-up calls, otherwise the suite ends
AfterCreate(o, to, skip) ==
    LET c == OkAndGet(o, "id") IN
    IF c.k = "raise" THEN Raised
    ELSE IF ~Truthy(c) THEN LeaveSuite(skip)
    ELSE [raise |-> FALSE, pc |-> to, locals |-> [locals EXCEPT !.id = c]]

Created == {Ok201([id |-> PyInt(42)])}
Listed(key) == {Ok200(key :> PyList(<<PyDict([id |-> PyInt(5)])>>))}
Plain == {Ok200([other |-> PyStr("x")])}

test_user_management ==
    \/ EnterOrSkip("user_management", "um_profile", "project_management",
                   "user management")
    \/ (\E resp \in Answers({Ok200([id |-> PyInt(1)])}) :
          LET o == make_request("GET", resp) IN
          Step("um_profile", "GET", <<"users", "profile">>, "", TokenOf("admin"),
               {Ok200([id |-> PyInt(1)])}, resp,
               "Get User Profile",
               OkAndGet(o, "id"),
               StatusDetails(o),
               Goto("um_users")))
    \/ (\E resp \in Answers(Listed("users")) :
          LET o == make_request("GET", resp) IN
          Step("um_users", "GET", <<"users">>, "", TokenOf("admin"),
               Listed("users"), resp,
               "Get Users List",
               PassedList(o, "users"),
               CountDetails(o, "users"),
               [Goto("um_create") EXCEPT !.locals.users = o]))
    \/ (\E resp \in Answers(Created) :
          LET o == make_request("POST", resp) IN
          Step("um_create", "POST", <<"users">>, "newuser@test.com", TokenOf("admin"),
               Created, resp,
               "Create User",
               PassedOk(o),
               StatusDetails(o),
               AfterListed(locals.users, "users", "um_details",
                                   "project_management")))
    \/ (\E resp \in Answers(Plain) :
          LET o == make_request("GET", resp) IN
          Step("um_details", "GET", <<"users", Format(locals.id)>>, "", TokenOf("admin"),
               Plain, resp,
               "Get User Details",
               PassedOk(o),
               StatusDetails(o),
               LeaveSuite("project_management")))

test_project_management ==
    \/ EnterOrSkip("project_management", "pm_list", "lead_management",
                   "project management")
    \/ (\E resp \in Answers(Listed("projects")) :
          LET o == make_request("GET", resp) IN
          Step("pm_list", "GET", <<"projects">>, "", TokenOf("admin"),
               Listed("projects"), resp,
               "Get Projects List",
               PassedList(o, "projects"),
               CountDetails(o, "projects"),
               Goto("pm_create")))
    \/ (\E resp \in Answers(Created) :
          LET o == make_request("POST", resp) IN
          Step("pm_create", "POST", <<"projects">>, "API Test Project", TokenOf("admin"),
               Created, resp,
               "Create Project",
               PassedOk(o),
               StatusDetails(o),
               AfterCreate(o, "pm_details", "lead_management")))
    \/ (\E resp \in Answers(Plain) :
          LET o == make_request("GET", resp) IN
          Step("pm_details", "GET", <<"projects", Format(locals.id)>>, "", TokenOf("admin"),
               Plain, resp,
               "Get Project Details",
               PassedOk(o),
               StatusDetails(o),
               Goto("pm_update")))
    \/ (\E resp \in Answers(Plain) :
          LET o == make_request("PUT", resp) IN
          Step("pm_update", "PUT", <<"projects", Format(locals.id)>>, "in_progress", TokenOf("admin"),
               Plain, resp,
               "Update Project",
               PassedOk(o),
               StatusDetails(o),
               LeaveSuite("lead_management")))

test_lead_management ==
    \/ EnterOrSkip("lead_management", "lm_list", "financial_system",
                   "lead management")
    \/ (\E resp \in Answers(Listed("leads")) :
          LET o == make_request("GET", resp) IN
          Step("lm_list", "GET", <<"leads">>, "", TokenOf("admin"),
               Listed("leads"), resp,
               "Get Leads List",
               PassedList(o, "leads"),
               CountDetails(o, "leads"),
               Goto("lm_create")))
    \/ (\E resp \in Answers(Created) :
          LET o == make_request("POST", resp) IN
          Step("lm_create", "POST", <<"leads">>, "testlead@test.com", None,
               Created, resp,
               "Create Lead (Public)",
               PassedOk(o),
               StatusDetails(o),
               AfterCreate(o, "lm_details", "financial_system")))
    \/ (\E resp \in Answers(Plain) :
          LET o == make_request("GET", resp) IN
          Step("lm_details", "GET", <<"leads", Format(locals.id)>>, "", TokenOf("admin"),
               Plain, resp,
               "Get Lead Details",
               PassedOk(o),
               StatusDetails(o),
               Goto("lm_assign")))
    \/ (\E resp \in Answers(Plain) :
          LET o == make_request("POST", resp) IN
          Step("lm_assign", "POST", <<"leads", Format(locals.id), "assign">>, "assignedTo", TokenOf("admin"),
               Plain, resp,
               "Assign Lead",
               PassedOk(o),
               StatusDetails(o),
               Goto("lm_update")))
    \/ (\E resp \in Answers(Plain) :
          LET o == make_request("PUT", resp) IN
          Step("lm_update", "PUT", <<"leads", Format(locals.id)>>, "qualified", TokenOf("admin"),
               Plain, resp,
               "Update Lead",
               PassedOk(o),
               StatusDetails(o),
               LeaveSuite("financial_system")))

test_financial_system ==
    \/ Enter("financial_system",
             IF Truthy(TokenOf("customer")) THEN "fin_wallet"
             ELSE IF Truthy(TokenOf("admin")) THEN "fin_quotations"
             ELSE "materials_and_vendors")
    \/ (\E resp \in Answers(Plain) :
          LET o == make_request("GET", resp) IN
          Step("fin_wallet", "GET", <<"wallet">>, "", TokenOf("customer"),
               Plain, resp,
               "Get User Wallet",
               PassedOk(o),
               StatusDetails(o),
               Goto("fin_transactions")))
    \/ (\E resp \in Answers(Plain) :
          LET o == make_request("GET", resp) IN
          Step("fin_transactions", "GET", <<"wallet", "transactions">>, "", TokenOf("customer"),
               Plain, resp,
               "Get Wallet Transactions",
               PassedOk(o),
               StatusDetails(o),
               IF Truthy(TokenOf("admin")) THEN Goto("fin_quotations")
                       ELSE LeaveSuite("materials_and_vendors")))
    \/ (\E resp \in Answers(Plain) :
          LET o == make_request("GET", resp) IN
          Step("fin_quotations", "GET", <<"quotations">>, "", TokenOf("admin"),
               Plain, resp,
               "Get Quotations List",
               PassedOk(o),
               StatusDetails(o),
               Goto("fin_create_quotation")))
    \/ (\E resp \in Answers(Created) :
          LET o == make_request("POST", resp) IN
          Step("fin_create_quotation", "POST", <<"quotations">>, "API Test Quotation", TokenOf("admin"),
               Created, resp,
               "Create Quotation",
               PassedOk(o),
               StatusDetails(o),
               Goto("fin_invoices")))
    \/ (\E resp \in Answers(Plain) :
          LET o == make_request("GET", resp) IN
          Step("fin_invoices", "GET", <<"invoices">>, "", TokenOf("admin"),
               Plain, resp,
               "Get Invoices List",
               PassedOk(o),
               StatusDetails(o),
               LeaveSuite("materials_and_vendors")))

test_materials_and_vendors ==
    \/ EnterOrSkip("materials_and_vendors", "mat_materials", "employee_management",
                   "materials and vendors")
    \/ (\E resp \in Answers(Listed("materials")) :
          LET o == make_request("GET", resp) IN
          Step("mat_materials", "GET", <<"materials">>, "", TokenOf("admin"),
               Listed("materials"), resp,
               "Get Materials Catalog",
               PassedOk(o),
               StatusDetails(o),
               [Goto("mat_categories") EXCEPT !.locals.materials = o]))
    \/ (\E resp \in Answers(Plain) :
          LET o == make_request("GET", resp) IN
          Step("mat_categories", "GET", <<"materials", "categories">>, "", None,
               Plain, resp,
               "Get Material Categories",
               PassedOk(o),
               StatusDetails(o),
               Goto("mat_vendors")))
    \/ (\E resp \in Answers(Plain) :
          LET o == make_request("GET", resp) IN
          Step("mat_vendors", "GET", <<"vendors">>, "", TokenOf("admin"),
               Plain, resp,
               "Get Vendors List",
               PassedOk(o),
               StatusDetails(o),
               Goto("mat_create")))
    \/ (\E resp \in Answers(Created) :
          LET o == make_request("POST", resp) IN
          Step("mat_create", "POST", <<"materials">>, "API Test Material", TokenOf("admin"),
               Created, resp,
               "Create Material",
               PassedOk(o),
               StatusDetails(o),
               AfterListed(locals.materials, "materials", "mat_details",
                                   "employee_management")))
    \/ (\E resp \in Answers(Plain) :
          LET o == make_request("GET", resp) IN
          Step("mat_details", "GET", <<"materials", Format(locals.id)>>, "", TokenOf("admin"),
               Plain, resp,
               "Get Material Details",
               PassedOk(o),
               StatusDetails(o),
               LeaveSuite("employee_management")))

test_employee_management ==
    \/ EnterOrSkip("employee_management", "emp_employees", "communication_system",
                   "employee management")
    \/ (\E resp \in Answers(Plain) :
          LET o == make_request("GET", resp) IN
          Step("emp_employees", "GET", <<"employees">>, "", TokenOf("admin"),
               Plain, resp,
               "Get Employees List",
               PassedOk(o),
               StatusDetails(o),
               Goto("emp_attendance")))
    \/ (\E resp \in Answers(Plain) :
          LET o == make_request("POST", resp) IN
          Step("emp_attendance", "POST", <<"employees", "attendance">>, "present", TokenOf("admin"),
               Plain, resp,
               "Mark Employee Attendance",
               PassedOk(o),
               StatusDetails(o),
               LeaveSuite("communication_system")))

test_communication_system ==
    \/ Enter("communication_system",
             IF Truthy(TokenOf("admin")) THEN "com_complaints"
             ELSE IF Truthy(TokenOf("customer")) THEN "com_create_complaint"
             ELSE "security_and_permissions")
    \/ (\E resp \in Answers(Plain) :
          LET o == make_request("GET", resp) IN
          Step("com_complaints", "GET", <<"complaints">>, "", TokenOf("admin"),
               Plain, resp,
               "Get Complaints List",
               PassedOk(o),
               StatusDetails(o),
               IF Truthy(TokenOf("customer")) THEN Goto("com_create_complaint")
                       ELSE LeaveSuite("security_and_permissions")))
    \/ (\E resp \in Answers(Created) :
          LET o == make_request("POST", resp) IN
          Step("com_create_complaint", "POST", <<"complaints">>, "API Test Complaint", TokenOf("customer"),
               Created, resp,
               "Create Complaint",
               PassedOk(o),
               StatusDetails(o),
               Goto("com_notifications")))
    \/ (\E resp \in Answers(Plain) :
          LET o == make_request("GET", resp) IN
          Step("com_notifications", "GET", <<"notifications">>, "", TokenOf("customer"),
               Plain, resp,
               "Get Notifications",
               PassedOk(o),
               StatusDetails(o),
               LeaveSuite("security_and_permissions")))

\* the forged bearer value of the invalid-token probe
ForgedToken == PyStr("invalid-token-123")

\* the four probes of test_security_and_permissions, in the order of the code
SecurityProbes == <<"unauthorized", "invalid_token", "sql_injection", "not_found">>

\* the request of a probe and the name its result is recorded under
ProbeCall(p) ==
    CASE p = "unauthorized" ->
           [method |-> "GET", path |-> <<"users", "profile">>, data |-> "",
            token |-> None, name |-> "Unauthorized Access Blocked"]
      [] p = "invalid_token" ->
           [method |-> "GET", path |-> <<"users", "profile">>, data |-> "",
            token |-> ForgedToken, name |-> "Invalid Token Rejected"]
      [] p = "sql_injection" ->
           [method |-> "POST", path |-> <<"auth", "login">>,
            data |-> "admin'; DROP TABLE users; --",
            token |-> None, name |-> "SQL Injection Blocked"]
      [] OTHER ->
           [method |-> "GET", path |-> <<"non-existent-endpoint">>, data |-> "",
            token |-> None, name |-> "404 Error Handling"]

\* mutant: a probe passes only while no probe before it has failed
ProbePassedChained(p, o) ==
    And(PyBool(test_results.failed = 0),
        CASE p = "unauthorized" -> RejectedWith(o, 401)
          [] p = "invalid_token" -> RejectedWith(o, 403)
          [] p = "sql_injection" -> Not(PyBool(o.ok))
          [] OTHER -> PyBool(o.status = 404))

\* the passed argument of the probe's log_test
ProbePassed(p, o) ==
    CASE p = "unauthorized" -> RejectedWith(o, 401)
      [] p = "invalid_token" -> RejectedWith(o, 403)
      [] p = "sql_injection" -> Not(PyBool(o.ok))
      [] OTHER -> PyBool(o.status = 404)

test_security_and_permissions ==
    \/ (\E resp \in Answers({Rejected(401)}) :
          LET o == make_request("GET", resp)
              c == ProbeCall("unauthorized") IN
          Step("security_and_permissions", c.method, c.path, c.data, c.token,
               {Rejected(401)}, resp,
               c.name,
               ProbePassed("unauthorized", o),
               StatusDetails(o),
               Goto("sec_invalid_token")))
    \/ (\E resp \in Answers({Rejected(403)}) :
          LET o == make_request("GET", resp)
              c == ProbeCall("invalid_token") IN
          Step("sec_invalid_token", c.method, c.path, c.data, c.token,
               {Rejected(403)}, resp,
               c.name,
               ProbePassed("invalid_token", o),
               StatusDetails(o),
               Goto("sec_sql_injection")))
    \/ (\E resp \in Answers({Rejected(401)}) :
          LET o == make_request("POST", resp)
              c == ProbeCall("sql_injection") IN
          Step("sec_sql_injection", c.method, c.path, c.data, c.token,
               {Rejected(401)}, resp,
               c.name,
               ProbePassed("sql_injection", o),
               StatusDetails(o),
               Goto("sec_not_found")))
    \/ (\E resp \in Answers({Rejected(404)}) :
          LET o == make_request("GET", resp)
              c == ProbeCall("not_found") IN
          Step("sec_not_found", c.method, c.path, c.data, c.token,
               {Rejected(404)}, resp,
               c.name,
               ProbePassed("not_found", o),
               StatusDetails(o),
               Goto("summary")))

(***************************************************************************)
(* FocusedAPITester.                                                       *)
(***************************************************************************)
\* authenticate: one login per pass of the loop; nothing is recorded
authenticate ==
    /\ pc = "authenticate"
    /\ LET user_type == focused_test_users[idx]
           expected == {Ok200([token |-> PyStr("tok-" \o user_type)])}
       IN
       \E resp \in Answers(expected) :
         LET login_response == make_request("POST", resp)
             token == LoginToken(login_response)
             error == GetDefault(DataOrEmpty(login_response), "error", PyStr("Unknown"))
         IN  /\ Send("POST", <<"auth", "login">>, Email(user_type), None, expected, resp)
             /\ IF token.k = "raise" \/ (~Truthy(token) /\ error.k = "raise")
                THEN /\ run' = Caught
                     /\ pc' = "returned"
                     /\ UNCHANGED <<tokens, idx>>
                ELSE /\ tokens' = IF Truthy(token)
                                  THEN [tokens EXCEPT ![user_type] = token]
                                  ELSE tokens
                     /\ run' = run
                     /\ IF idx < Len(focused_test_users)
                        THEN idx' = idx + 1 /\ pc' = "authenticate"
                        ELSE idx' = 1 /\ pc' = "critical_failing_endpoints"
    /\ UNCHANGED <<harness, backend, test_results, locals, request, outcome, scan>>

\* the creation call in front of an update test: only its failure is recorded,
\* under the name of the update test
FocusedCreate(at, path, data, token, name, failure, to, skip) ==
    /\ pc = at
    /\ \E resp \in Answers(Created) :
         LET o == make_request("POST", resp)
             c == OkAndGet(o, "id")
         IN  /\ Send("POST", path, data, token, Created, resp)
             /\ IF c.k = "raise"
                THEN /\ run' = Caught
                     /\ pc' = "returned"
                     /\ UNCHANGED <<test_results, locals>>
                ELSE IF Truthy(c)
                THEN /\ locals' = [locals EXCEPT !.id = c]
                     /\ pc' = to
                     /\ UNCHANGED <<test_results, run>>
                ELSE /\ test_results' =
                          log_test(test_results, name, PyBool(FALSE),
                                   PyStr(failure \o ToString(o.status)))
                     /\ pc' = skip
                     /\ UNCHANGED <<locals, run>>
    /\ UNCHANGED <<harness, backend, idx, tokens, request, outcome, scan>>

\* the wallet test without a customer token: recorded as failed, no call
WalletWithoutToken ==
    /\ pc = "fc_wallet"
    /\ ~Truthy(TokenOf("customer"))
    /\ test_results' = log_test(test_results, "Get User Wallet (GET /wallet)",
                                PyBool(FALSE), PyStr("Customer token not available"))
    /\ pc' = "fc_quotation"
    /\ UNCHANGED <<harness, backend, faults, idx, tokens, calls, locals, run,
                   request, outcome, scan>>

test_critical_failing_endpoints ==
    \/ EnterOrSkip("critical_failing_endpoints", "fc_create_project", "summary",
                   "critical")
    \/ FocusedCreate("fc_create_project", <<"projects">>, "Critical Test Project",
                     TokenOf("admin"), "Update Project (PUT /projects/:id)",
                     "Failed to create test project: Status ",
                     "fc_update_project", "fc_create_lead")
    \/ (\E resp \in Answers(Plain) :
          LET o == make_request("PUT", resp) IN
          Step("fc_update_project", "PUT", <<"projects", Format(locals.id)>>, "in_progress", TokenOf("admin"),
               Plain, resp,
               "Update Project (PUT /projects/:id)",
               PassedOk(o),
               StatusDetails(o),
               LeaveSuite("fc_create_lead")))
    \/ FocusedCreate("fc_create_lead", <<"leads">>, "criticaltest@test.com",
                     None, "Update Lead (PUT /leads/:id)",
                     "Failed to create test lead: Status ",
                     "fc_update_lead", "fc_wallet")
    \/ (\E resp \in Answers(Plain) :
          LET o == make_request("PUT", resp) IN
          Step("fc_update_lead", "PUT", <<"leads", Format(locals.id)>>, "qualified", TokenOf("admin"),
               Plain, resp,
               "Update Lead (PUT /leads/:id)",
               PassedOk(o),
               StatusDetails(o),
               LeaveSuite("fc_wallet")))
    \/ (/\ Truthy(TokenOf("customer"))
        /\ (\E resp \in Answers(Plain) :
              LET o == make_request("GET", resp) IN
              Step("fc_wallet", "GET", <<"wallet">>, "", TokenOf("customer"),
                   Plain, resp,
                   "Get User Wallet (GET /wallet)",
                   PassedOk(o),
                   StatusDetails(o),
                   Goto("fc_quotation"))))
    \/ WalletWithoutToken
    \/ (\E resp \in Answers(Created) :
          LET o == make_request("POST", resp) IN
          Step("fc_quotation", "POST", <<"quotations">>, "Critical Test Quotation", TokenOf("admin"),
               Created, resp,
               "Create Quotation (POST /quotations)",
               PassedOk(o),
               StatusDetails(o),
               Goto("fc_employees")))
    \/ (\E resp \in Answers(Listed("employees")) :
          LET o == make_request("GET", resp) IN
          Step("fc_employees", "GET", <<"employees">>, "", TokenOf("admin"),
               Listed("employees"), resp,
               "Get Employees List (GET /employees)",
               PassedOk(o),
               CountDetails(o, "employees"),
               Goto("fc_attendance")))
    \/ (\E resp \in Answers(Plain) :
          LET o == make_request("POST", resp) IN
          Step("fc_attendance", "POST", <<"employees", "attendance">>, "present", TokenOf("admin"),
               Plain, resp,
               "Mark Employee Attendance (POST /employees/attendance)",
               PassedOk(o),
               StatusDetails(o),
               LeaveSuite("summary")))

(***************************************************************************)
(* The summary, the verdict and the exit code.                             *)
(***************************************************************************)
\* success_rate >= threshold, with success_rate = passed / total * 100, or 0
\* when no test was recorded
RateAtLeast(tr, threshold) ==
    LET total_tests == tr.passed + tr.failed IN
    IF total_tests > 0 THEN tr.passed * 100 >= threshold * total_tests
    ELSE 0 >= threshold

\* mutant: the run succeeds from a rate of 5 percent on
VerdictLenient(tr) == RateAtLeast(tr, 5)

\* return success_rate >= 85
Verdict(tr) == RateAtLeast(tr, 85)

\* f"{(num / den * 100):.1f}" as the number of tenths printed: the decimal
\* nearest to the float, an exact half going to the even tenth
FormatOneDecimal(num, den) ==
    LET q == (num * 1000) \div den
        r == (num * 1000) % den
    IN  IF 2 * r > den THEN q + 1
        ELSE IF 2 * r < den THEN q
        ELSE IF q % 2 = 0 THEN q ELSE q + 1

\* mutant: the rate is cut after its first decimal
FormatRateTruncated(tr) ==
    LET total_tests == tr.passed + tr.failed IN
    IF total_tests > 0 THEN (tr.passed * 1000) \div total_tests ELSE 0

\* f"{success_rate:.1f}", as the number of tenths printed; success_rate is the
\* int 0 when no test was recorded
FormatRate(tr) ==
    LET total_tests == tr.passed + tr.failed IN
    IF total_tests > 0 THEN FormatOneDecimal(tr.passed, total_tests) ELSE 0

\* mutant: the thresholds are exclusive
ReadinessExclusive(tr) ==
    IF ~RateAtLeast(tr, 70) \/ tr.passed * 100 = 70 * (tr.passed + tr.failed)
    THEN "NOT READY"
    ELSE IF tr.passed * 100 =< 85 * (tr.passed + tr.failed) THEN "NEEDS WORK"
    ELSE IF tr.passed * 100 =< 95 * (tr.passed + tr.failed) THEN "MOSTLY READY"
    ELSE "PRODUCTION READY"

\* the production readiness assessment of run_comprehensive_tests
Readiness(tr) ==
    IF RateAtLeast(tr, 95) THEN "PRODUCTION READY"
    ELSE IF RateAtLeast(tr, 85) THEN "MOSTLY READY"
    ELSE IF RateAtLeast(tr, 70) THEN "NEEDS WORK"
    ELSE "NOT READY"

\* the tail of run_comprehensive_tests and of run_focused_tests: the summary
\* is printed (run_focused_tests prints no readiness line) and the verdict
\* returned
Summary ==
    /\ pc = "summary"
    /\ run' = [run EXCEPT !.summary = TRUE,
                          !.rate = FormatRate(test_results),
                          !.tier = IF harness = "APITester"
                                   THEN Readiness(test_results) ELSE "none",
                          !.returned = IF Verdict(test_results) THEN "True" ELSE "False"]
    /\ pc' = "returned"
    /\ UNCHANGED <<harness, backend, faults, idx, tokens, test_results, calls,
                   locals, request, outcome, scan>>

\* backend_test.main: sys.exit(0 if success else 1)
ExitCode(success) == IF success = "True" THEN 0 ELSE 1

main ==
    /\ pc = "returned"
    /\ harness = "APITester"
    /\ run' = [run EXCEPT !.exit_code = ExitCode(run.returned)]
    /\ pc' = "exited"
    /\ UNCHANGED <<harness, backend, faults, idx, tokens, test_results, calls,
                   locals, request, outcome, scan>>

\* focused_backend_test.main: return success; the interpreter then exits
\* normally
focused_main ==
    /\ pc = "returned"
    /\ harness = "FocusedAPITester"
    /\ run' = [run EXCEPT !.exit_code = 0]
    /\ pc' = "exited"
    /\ UNCHANGED <<harness, backend, faults, idx, tokens, test_results, calls,
                   locals, request, outcome, scan>>

\* Ctrl-C while the run is under way (taken between two steps of the run):
\* KeyboardInterrupt is no Exception, so the except clause of the run lets it
\* pass and the interpreter ends with a traceback
Interrupt ==
    /\ pc \notin {"exited", "interrupted"}
    /\ pc' = "interrupted"
    /\ run' = [run EXCEPT !.exit_code = 130]
    /\ UNCHANGED <<harness, backend, faults, idx, tokens, test_results, calls,
                   locals, request, outcome, scan>>

(***************************************************************************)
(* The specification of a run.                                             *)
(***************************************************************************)
\* mutant: the run starts behind the authentication
InitPastAuthentication ==
    /\ harness \in {"APITester", "FocusedAPITester"}
    /\ backend \in {"up", "down"}
    /\ faults = 0
    /\ pc = IF harness = "APITester" THEN "user_management"
            ELSE "critical_failing_endpoints"
    /\ idx = 1
    /\ tokens = [r \in Roles |-> Absent]
    /\ test_results = [passed |-> 0, failed |-> 0, details |-> <<>>]
    /\ calls = <<>>
    /\ locals = NoLocals
    /\ run = NoRun
    /\ request = NoRequest
    /\ outcome = NoOutcome
    /\ scan = NoScan

Init ==
    /\ harness \in {"APITester", "FocusedAPITester"}
    /\ backend \in {"up", "down"}
    /\ faults = 0
    /\ pc = IF harness = "APITester" THEN "health" ELSE "authenticate"
    /\ idx = 1
    /\ tokens = [r \in Roles |-> Absent]
    /\ test_results = [passed |-> 0, failed |-> 0, details |-> <<>>]
    /\ calls = <<>>
    /\ locals = NoLocals
    /\ run = NoRun
    /\ request = NoRequest
    /\ outcome = NoOutcome
    /\ scan = NoScan

Next ==
    \/ test_health_endpoints
    \/ test_authentication
    \/ test_user_management
    \/ test_project_management
    \/ test_lead_management
    \/ test_financial_system
    \/ test_materials_and_vendors
    \/ test_employee_management
    \/ test_communication_system
    \/ test_security_and_permissions
    \/ authenticate
    \/ test_critical_failing_endpoints
    \/ Summary
    \/ main
    \/ focused_main
    \/ Interrupt

Spec == Init /\ [][Next]_vars

\* a run is one sequential process: while a step is possible, one is taken
SpecFair == Spec /\ WF_vars(Next)

(***************************************************************************)
(* make_request on its own: any method, any answer of the backend.         *)
(***************************************************************************)
Methods == {"GET", "POST", "PUT", "DELETE", "PATCH"}
Statuses == {101, 200, 201, 204, 302, 304, 400, 401, 403, 404, 500, 503}
JsonValues ==
    { EmptyDict,
      PyDict([token |-> PyStr("tok-any"), id |-> PyInt(42)]),
      PyList(<<>>),
      PyStr("ok"),
      None }
Responses ==
    {Failure(e) : e \in TransportExceptions}
    \cup {Http(st, ct, "empty", None) : st \in Statuses, ct \in BOOLEAN}
    \cup {Http(st, ct, "text", None) : st \in Statuses, ct \in BOOLEAN}
    \cup {Http(st, ct, "json", v) : st \in Statuses, ct \in BOOLEAN, v \in JsonValues}

InitRequest ==
    /\ request \in [impl : {"APITester", "FocusedAPITester", "backend_test_focused"},
                    method : Methods, resp : Responses]
    /\ outcome = NoOutcome
    /\ pc = "request"
    /\ harness = "APITester"
    /\ backend = "up"
    /\ faults = 0
    /\ idx = 1
    /\ tokens = [r \in Roles |-> Absent]
    /\ test_results = [passed |-> 0, failed |-> 0, details |-> <<>>]
    /\ calls = <<>>
    /\ locals = NoLocals
    /\ run = NoRun
    /\ scan = NoScan

\* the call under test is made and has returned (or raised)
MakeRequest ==
    /\ pc = "request"
    /\ outcome' = IF request.impl = "backend_test_focused"
                  THEN focused_make_request(request.method, request.resp)
                  ELSE make_request(request.method, request.resp)
    /\ pc' = "responded"
    /\ UNCHANGED <<harness, backend, faults, idx, tokens, test_results, calls,
                   locals, run, request, scan>>

SpecRequest == InitRequest /\ [][MakeRequest]_vars

(***************************************************************************)
(* The summary on its own: any counts the suites may have left.            *)
(***************************************************************************)
\* test_results after passed passing and failed failing log_test calls
Recorded(passed, failed) ==
    [passed |-> passed, failed |-> failed,
     details |-> [k \in 1..(passed + failed) |->
                     TestResult("test", PyBool(k =< passed), PyStr(""))]]

InitSummary ==
    /\ harness \in {"APITester", "FocusedAPITester"}
    /\ \E passed \in 0..MaxCount, failed \in 0..MaxCount :
           test_results = Recorded(passed, failed)
    /\ pc = "summary"
    /\ backend = "up"
    /\ faults = 0
    /\ idx = 1
    /\ tokens = [r \in Roles |-> Absent]
    /\ calls = <<>>
    /\ locals = NoLocals
    /\ run = NoRun
    /\ request = NoRequest
    /\ outcome = NoOutcome
    /\ scan = NoScan

NextSummary == Summary \/ main \/ focused_main

SpecSummary == InitSummary /\ [][NextSummary]_vars

(***************************************************************************)
(* The scripts that call requests directly: marketplace_api_test (the      *)
(* endpoint scanner) and attendance_fix_test.                              *)
(***************************************************************************)
\* how many entries of marketplace_endpoints the scanned list has at most
MaxEndpoints == 3

\* requests.post(...) without a timeout argument: the call waits without limit
NoTimeout == 0
\* timeout=5 in test_endpoint
ScanTimeout == 5

\* the backend never answers: a call with a timeout ends in ReadTimeout, a
\* call without one never returns
Unanswered == Failure("Unanswered")
Blocks(resp, timeout) == resp = Unanswered /\ timeout = NoTimeout
Received(resp) == IF resp = Unanswered THEN Failure("ReadTimeout") ELSE resp

\* response.json(): the body is parsed whatever the content-type says
Json(resp) == IF resp.bk = "json" THEN resp.val ELSE Raise

\* v[key]: KeyError for a missing key, TypeError for a value that is no dict
Item(v, key) ==
    IF v.k = "dict" /\ v.d[key] # Absent THEN v.d[key] ELSE Raise

\* the first entries of marketplace_endpoints: (endpoint, method)
marketplace_endpoints ==
    << [endpoint |-> <<"projects">>, method |-> "GET"],
       [endpoint |-> <<"projects">>, method |-> "POST"],
       [endpoint |-> <<"projects", "1">>, method |-> "GET"],
       [endpoint |-> <<"projects", "1">>, method |-> "PUT"],
       [endpoint |-> <<"projects", "1">>, method |-> "DELETE"] >>

\* the answers to a login of the scripts
LoginResponses ==
    { Http(200, TRUE, "json", PyDict([token |-> PyStr("tok-admin")])),
      Http(200, TRUE, "json", EmptyDict),
      Http(200, TRUE, "json", PyList(<<>>)),
      Http(200, FALSE, "text", None),
      Http(401, TRUE, "json", ErrorBody),
      Failure("ConnectionError"),
      Unanswered }

\* the answers to a scanned endpoint and to the attendance posts
ScanResponses ==
    {Http(st, TRUE, "json", EmptyDict) : st \in {200, 401, 404, 500}}
    \cup {Failure("ConnectionError"), Unanswered}

\* the request of a script as it goes on the wire
ScriptWire(method, path, token, timeout) ==
    [method |-> method, path |-> path, has_auth |-> Truthy(token),
     bearer |-> IF Truthy(token) THEN Format(token) ELSE "", timeout |-> timeout]

\* mutant: an endpoint exists when its status is below 400
test_endpoint_strict(method, resp) ==
    IF method \notin {"GET", "POST", "PUT", "DELETE"}
    THEN [exists |-> FALSE, status_code |-> 0, accessible |-> FALSE,
          error |-> "UnboundLocalError"]
    ELSE IF resp.exc # "none"
    THEN [exists |-> FALSE, status_code |-> 0, accessible |-> FALSE, error |-> resp.exc]
    ELSE [exists |-> resp.status < 400, status_code |-> resp.status,
          accessible |-> resp.status < 500, error |-> ""]

\* test_endpoint: the dict it returns; a method outside the four leaves
\* response unbound, which the except clause catches like any exception
test_endpoint(method, resp) ==
    IF method \notin {"GET", "POST", "PUT", "DELETE"}
    THEN [exists |-> FALSE, status_code |-> 0, accessible |-> FALSE,
          error |-> "UnboundLocalError"]
    ELSE IF resp.exc # "none"
    THEN [exists |-> FALSE, status_code |-> 0, accessible |-> FALSE, error |-> resp.exc]
    ELSE [exists |-> resp.status # 404, status_code |-> resp.status,
          accessible |-> resp.status < 500, error |-> ""]

\* get_valid_token and the head of main: the login has no timeout and no try
get_valid_token ==
    /\ pc = "get_valid_token"
    /\ \E resp \in LoginResponses :
         LET token == Get(Json(resp), "token") IN
         /\ calls' = Append(calls,
                [req |-> ScriptWire("POST", <<"auth", "login">>, None, NoTimeout),
                 resp |-> resp])
         /\ IF Blocks(resp, NoTimeout)
            THEN pc' = "blocked" /\ scan' = scan
            ELSE IF resp.exc # "none"
            THEN pc' = "crashed" /\ scan' = scan
            ELSE IF ~ResponseOk(resp.status)
            THEN pc' = "exited" /\ scan' = scan
            ELSE IF token.k = "raise"
            THEN pc' = "crashed" /\ scan' = scan
            ELSE IF ~Truthy(token)
            THEN pc' = "exited" /\ scan' = scan
            ELSE pc' = "scan" /\ scan' = [scan EXCEPT !.token = token]
    /\ UNCHANGED <<harness, backend, faults, idx, tokens, test_results, locals,
                   run, request, outcome>>

\* mutant: an endpoint that exists but answers 500 or more is put in no list
ClassifyDropsBroken(sc, ep, result) ==
    IF result.exists /\ result.accessible
    THEN [sc EXCEPT !.existing = Append(@, [endpoint |-> ep.endpoint,
                                            method |-> ep.method, result |-> result])]
    ELSE IF result.exists THEN sc
    ELSE [sc EXCEPT !.missing = Append(@, ep)]

\* if result['exists']: existing_endpoints.append(...) else:
\* missing_endpoints.append(...)
Classify(sc, ep, result) ==
    IF result.exists
    THEN [sc EXCEPT !.existing = Append(@, [endpoint |-> ep.endpoint,
                                            method |-> ep.method, result |-> result])]
    ELSE [sc EXCEPT !.missing = Append(@, ep)]

\* one pass of the loop over marketplace_endpoints
ScanEndpoint ==
    /\ pc = "scan"
    /\ \E resp \in ScanResponses :
         LET ep == scan.endpoints[idx]
             result == test_endpoint(ep.method, Received(resp))
         IN  /\ calls' = Append(calls,
                    [req |-> ScriptWire(ep.method, ep.endpoint, scan.token, ScanTimeout),
                     resp |-> resp, out |-> result])
             /\ scan' = Classify(scan, ep, result)
    /\ idx' = idx + 1
    /\ pc' = IF idx = Len(scan.endpoints) THEN "report" ELSE "scan"
    /\ UNCHANGED <<harness, backend, faults, tokens, test_results, locals, run,
                   request, outcome>>

\* the coverage report
Report ==
    /\ pc = "report"
    /\ scan' = [scan EXCEPT !.coverage =
                    FormatOneDecimal(Len(scan.existing), Len(scan.endpoints))]
    /\ pc' = "exited"
    /\ UNCHANGED <<harness, backend, faults, idx, tokens, test_results, calls,
                   locals, run, request, outcome>>

\* marketplace_api_test.main
marketplace_main ==
    /\ harness = "marketplace_api_test"
    /\ (get_valid_token \/ ScanEndpoint \/ Report)

\* the login of test_attendance_fix: no timeout, no try, token read by
\* subscript
AttendanceLogin ==
    /\ pc = "attendance_login"
    /\ \E resp \in LoginResponses :
         LET token == Item(Json(resp), "token") IN
         /\ calls' = Append(calls,
                [req |-> ScriptWire("POST", <<"auth", "login">>, None, NoTimeout),
                 resp |-> resp])
         /\ IF Blocks(resp, NoTimeout)
            THEN pc' = "blocked" /\ scan' = scan
            ELSE IF resp.exc # "none"
            THEN pc' = "crashed" /\ scan' = scan
            ELSE IF ~ResponseOk(resp.status)
            THEN pc' = "exited" /\ scan' = scan
            ELSE IF token.k = "raise"
            THEN pc' = "crashed" /\ scan' = scan
            ELSE pc' = "attendance" /\ scan' = [scan EXCEPT !.token = token]
    /\ UNCHANGED <<harness, backend, faults, idx, tokens, test_results, locals,
                   run, request, outcome>>

\* the attendance post and, when it is not ok, the post in the alternative
\* format; the body is only printed (as JSON, or as text when it does not parse)
AttendancePost ==
    /\ pc \in {"attendance", "attendance_alternative"}
    /\ \E resp \in ScanResponses :
         /\ calls' = Append(calls,
                [req |-> ScriptWire("POST", <<"employees", "attendance">>,
                                    scan.token, NoTimeout),
                 resp |-> resp])
         /\ pc' = IF Blocks(resp, NoTimeout) THEN "blocked"
                  ELSE IF resp.exc # "none" THEN "crashed"
                  ELSE IF ResponseOk(resp.status) THEN "exited"
                  ELSE IF pc = "attendance" THEN "attendance_alternative"
                  ELSE "exited"
    /\ UNCHANGED <<harness, backend, faults, idx, tokens, test_results, locals,
                   run, request, outcome, scan>>

test_attendance_fix ==
    /\ harness = "attendance_fix_test"
    /\ (AttendanceLogin \/ AttendancePost)

InitScan ==
    /\ harness \in {"marketplace_api_test", "attendance_fix_test"}
    /\ pc = IF harness = "marketplace_api_test" THEN "get_valid_token"
            ELSE "attendance_login"
    /\ \E n \in 1..MaxEndpoints :
           scan = [NoScan EXCEPT !.endpoints =
                      IF harness = "marketplace_api_test"
                      THEN SubSeq(marketplace_endpoints, 1, n) ELSE <<>>]
    /\ backend = "up"
    /\ faults = 0
    /\ idx = 1
    /\ tokens = [r \in Roles |-> Absent]
    /\ test_results = [passed |-> 0, failed |-> 0, details |-> <<>>]
    /\ calls = <<>>
    /\ locals = NoLocals
    /\ run = NoRun
    /\ request = NoRequest
    /\ outcome = NoOutcome

NextScan == marketplace_main \/ test_attendance_fix

SpecScan == InitScan /\ [][NextScan]_vars

(***************************************************************************)
(* backend_test_focused: the script that exercises the failing endpoints.  *)
(***************************************************************************)
\* timeout=10 in the script's make_request
FocusedTimeout == 10

\* one call of the script: the request on the wire and the outcome its
\* make_request returned
ScriptSend(method, path, data, token, expected, resp) ==
    /\ calls' = Append(calls,
           [req |-> [Wire(method, path, data, token) EXCEPT !.timeout = FocusedTimeout],
            out |-> focused_make_request(method, resp)])
    /\ faults' = IF backend = "up" /\ resp \notin expected THEN faults + 1 ELSE faults

\* result.get('data', {}).get('error', 'Unknown error'), printed when the
\* call was not ok
ErrorPrinted(o) ==
    IF o.ok THEN None
    ELSE GetDefault(DataOrEmpty(o), "error", PyStr("Unknown error"))

\* get_admin_token and the head of test_failing_endpoints: the token is read
\* from the body of an ok login without any check
get_admin_token ==
    /\ pc = "get_admin_token"
    /\ LET expected == {Ok200([token |-> PyStr("tok-admin")])} IN
       \E resp \in Answers(expected) :
         LET login_response == focused_make_request("POST", resp)
             admin_token == IF login_response.ok
                            THEN Item(Data(login_response), "token")
                            ELSE None
         IN  /\ ScriptSend("POST", <<"auth", "login">>, Email("admin"), None,
                           expected, resp)
             /\ IF admin_token.k = "raise"
                THEN pc' = "crashed" /\ scan' = scan
                ELSE IF ~Truthy(admin_token)
                THEN pc' = "exited" /\ scan' = scan
                ELSE pc' = "tfe_projects" /\ scan' = [scan EXCEPT !.token = admin_token]
    /\ UNCHANGED <<harness, backend, idx, tokens, test_results, locals, run,
                   request, outcome>>

\* the GET that looks for a resource to update: the id of the first element
\* of the list, when the list is there
ScriptList(at, key, to, skip) ==
    /\ pc = at
    /\ \E resp \in Answers(Listed(key)) :
         LET o == focused_make_request("GET", resp)
             c == OkAndGet(o, key)
             id == FirstId(o, key)
         IN  /\ ScriptSend("GET", <<key>>, "", scan.token, Listed(key), resp)
             /\ IF c.k = "raise"
                THEN pc' = "crashed" /\ locals' = locals
                ELSE IF ~Truthy(c)
                THEN pc' = skip /\ locals' = locals
                ELSE IF id.k = "raise"
                THEN pc' = "crashed" /\ locals' = locals
                ELSE pc' = to /\ locals' = [locals EXCEPT !.id = id]
    /\ UNCHANGED <<harness, backend, idx, tokens, test_results, run, request,
                   outcome, scan>>

\* a call whose result is printed, with the error of a call that was not ok
ScriptCall(at, method, path, data, to) ==
    /\ pc = at
    /\ \E resp \in Answers(Plain) :
         LET o == focused_make_request(method, resp) IN
         /\ ScriptSend(method, path, data, scan.token, Plain, resp)
         /\ pc' = IF ErrorPrinted(o).k = "raise" THEN "crashed" ELSE to
    /\ UNCHANGED <<harness, backend, idx, tokens, test_results, locals, run,
                   request, outcome, scan>>

test_failing_endpoints ==
    \/ ScriptList("tfe_projects", "projects", "tfe_update_project", "tfe_leads")
    \/ ScriptCall("tfe_update_project", "PUT", <<"projects", Format(locals.id)>>,
                  "Updated Test Project", "tfe_leads")
    \/ ScriptList("tfe_leads", "leads", "tfe_update_lead", "tfe_wallet")
    \/ ScriptCall("tfe_update_lead", "PUT", <<"leads", Format(locals.id)>>,
                  "updated@test.com", "tfe_wallet")
    \/ ScriptCall("tfe_wallet", "GET", <<"wallet">>, "", "tfe_quotation")
    \/ ScriptCall("tfe_quotation", "POST", <<"quotations">>, "Test Quotation",
                  "tfe_employees")
    \/ ScriptCall("tfe_employees", "GET", <<"employees">>, "", "tfe_attendance")
    \/ ScriptCall("tfe_attendance", "POST", <<"employees", "attendance">>,
                  "present", "exited")

InitScript ==
    /\ harness = "backend_test_focused"
    /\ backend \in {"up", "down"}
    /\ faults = 0
    /\ pc = "get_admin_token"
    /\ idx = 1
    /\ tokens = [r \in Roles |-> Absent]
    /\ test_results = [passed |-> 0, failed |-> 0, details |-> <<>>]
    /\ calls = <<>>
    /\ locals = NoLocals
    /\ run = NoRun
    /\ request = NoRequest
    /\ outcome = NoOutcome
    /\ scan = NoScan

NextScript == get_admin_token \/ test_failing_endpoints

SpecScript == InitScript /\ [][NextScript]_vars

(***************************************************************************)
(* The security probes on their own: any order, any answer to each probe.  *)
(***************************************************************************)
\* the orders in which the four probes may be run
ProbeOrders ==
    {order \in [1..Len(SecurityProbes) -> 1..Len(SecurityProbes)] :
        \A a, b \in 1..Len(SecurityProbes) : order[a] = order[b] => a = b}

\* the answers the backend may give to a probe
ProbeAnswers ==
    {Rejected(401), Rejected(403), Rejected(404), Accepting, Failure("ConnectionError")}

InitProbes ==
    /\ request \in [impl : {"APITester"}, order : ProbeOrders,
                    answers : [1..Len(SecurityProbes) -> ProbeAnswers]]
    /\ pc = "probe"
    /\ idx = 1
    /\ harness = "APITester"
    /\ backend = "up"
    /\ faults = 0
    /\ tokens = [r \in Roles |-> Absent]
    /\ test_results = [passed |-> 0, failed |-> 0, details |-> <<>>]
    /\ calls = <<>>
    /\ locals = NoLocals
    /\ run = NoRun
    /\ outcome = NoOutcome
    /\ scan = NoScan

\* the next probe of the order is sent and its result recorded
SecurityProbe ==
    /\ pc = "probe"
    /\ LET n == request.order[idx]
           p == SecurityProbes[n]
           c == ProbeCall(p)
           o == make_request(c.method, request.answers[n])
       IN  /\ calls' = Append(calls, [req |-> Wire(c.method, c.path, c.data, c.token),
                                      out |-> o])
           /\ test_results' = log_test(test_results, c.name, ProbePassed(p, o),
                                       StatusDetails(o))
    /\ idx' = idx + 1
    /\ pc' = IF idx = Len(SecurityProbes) THEN "probed" ELSE "probe"
    /\ UNCHANGED <<harness, backend, faults, tokens, locals, run, request,
                   outcome, scan>>

SpecProbes == InitProbes /\ [][SecurityProbe]_vars

(***************************************************************************)
(* Properties.                                                             *)
(***************************************************************************)
\* C1: at every point of a run, whatever was recorded so far,
\* test_results["passed"] + test_results["failed"] equals
\* len(test_results["details"]).
C1_AggregateInvariant ==
    test_results.passed + test_results.failed = Len(test_results.details)

\* C1 witness: several results are recorded, passed and failed ones, one of
\* them with a passed flag that is a token string rather than a bool
C1_Witness ==
    /\ test_results.passed >= 2
    /\ test_results.failed >= 1
    /\ \E i \in 1..Len(test_results.details) : test_results.details[i].passed.k = "str"

\* C2: a transport exception never leaves make_request: it is returned as an
\* outcome with status 0, ok false and an error field (and no data).
C2_TransportFailureIsOutcome ==
    (pc = "responded" /\ request.resp.exc # "none") =>
        /\ ~outcome.raised
        /\ outcome.status = 0
        /\ ~outcome.ok
        /\ outcome.error # ""
        /\ ~outcome.has_data

\* C2 witness: a transport exception that is neither a timeout nor a
\* connection error was answered to a supported method and came back as an
\* outcome
C2_Witness ==
    /\ pc = "responded"
    /\ request.resp.exc = "TooManyRedirects"
    /\ request.method = "GET"
    /\ request.impl = "APITester"
    /\ outcome.status = 0
    /\ outcome.error = "TooManyRedirects"

\* C3 (as claimed): a response that declares JSON but whose body does not
\* parse comes back with its own status and ok flag and the raw text as data.
C3_UndecodableJsonFallsBackToText ==
    (/\ pc = "responded"
     /\ request.method = "GET"
     /\ request.resp.exc = "none"
     /\ request.resp.json_ctype
     /\ request.resp.bk = "text") =>
        /\ outcome.status = request.resp.status
        /\ outcome.ok = ResponseOk(request.resp.status)
        /\ outcome.has_data
        /\ outcome.data = PyStr(ResponseText(request.resp))

(***************************************************************************)
(* Views of a run's history used by the properties below.                  *)
(***************************************************************************)
Roster == IF harness = "APITester" THEN test_users ELSE focused_test_users
Finished == pc = "exited"
Is2xx(status) == 200 =< status /\ status < 300

\* call i is the roster login of user_type
IsLogin(i, user_type) ==
    /\ calls[i].req.path = <<"auth", "login">>
    /\ calls[i].req.data = Email(user_type)
LoginAttempted(user_type) == \E i \in 1..Len(calls) : IsLogin(i, user_type)

\* the lifecycle chains: call i creates a resource of the domain, call j is a
\* follow-up call on one resource of the domain
Domains == {"projects", "leads"}
IsCreate(i, dom) == calls[i].req.method = "POST" /\ calls[i].req.path = <<dom>>
IsFollowUp(j, dom) == Len(calls[j].req.path) >= 2 /\ calls[j].req.path[1] = dom
\* the identifier in the body of the answer to call i, None when there is none
ReturnedId(i) ==
    LET v == Get(DataOrEmpty(calls[i].out), "id") IN
    IF v.k = "raise" THEN None ELSE v

\* the names under which the steps of a chain are recorded
CreateName(dom) ==
    IF harness = "APITester"
    THEN (IF dom = "projects" THEN "Create Project" ELSE "Create Lead (Public)")
    ELSE (IF dom = "projects" THEN "Update Project (PUT /projects/:id)"
          ELSE "Update Lead (PUT /leads/:id)")
DownstreamNames(dom) ==
    IF harness = "APITester"
    THEN (IF dom = "projects" THEN {"Get Project Details", "Update Project"}
          ELSE {"Get Lead Details", "Assign Lead", "Update Lead"})
    ELSE {CreateName(dom)}
FailedResults(names) ==
    {k \in 1..Len(test_results.details) :
        /\ test_results.details[k].name \in names
        /\ ~Truthy(test_results.details[k].passed)}

\* the security probes among the calls, and whether one was accepted
IsForgedProbe(i) == calls[i].req.bearer = Format(ForgedToken)
IsSqlProbe(i) == calls[i].req.data = "admin'; DROP TABLE users; --"
IsAnonymousProbe(i) ==
    /\ calls[i].req.path = <<"users", "profile">>
    /\ ~calls[i].req.has_auth
ProbeAccepted ==
    \E i \in 1..Len(calls) :
        /\ IsForgedProbe(i) \/ IsSqlProbe(i) \/ IsAnonymousProbe(i)
        /\ Is2xx(calls[i].out.status)

\* every text the run has recorded: the names and details of its TestResults
RecordedTexts ==
    {test_results.details[k].name : k \in 1..Len(test_results.details)}
    \cup {Format(test_results.details[k].details) : k \in 1..Len(test_results.details)}

\* C4 (as claimed): once the roster loop has started, a login is attempted
\* for every identity of the roster whatever the earlier logins returned, and
\* every successful login leaves its token under its own role.
C4_RosterLoginsIsolated ==
    Finished =>
        /\ LoginAttempted(Roster[1]) =>
               \A n \in 1..Len(Roster) : LoginAttempted(Roster[n])
        /\ \A n \in 1..Len(Roster) : \A i \in 1..Len(calls) :
               (IsLogin(i, Roster[n]) /\ calls[i].out.ok
                   /\ Truthy(Get(DataOrEmpty(calls[i].out), "token")))
               => tokens[Roster[n]] = Get(DataOrEmpty(calls[i].out), "token")

\* C5 (as claimed): when the creation call of a chain returns a non-2xx
\* status or a transport failure, no follow-up call of the chain is issued
\* and exactly one failed TestResult is recorded for the chain, the one of
\* the creation (FocusedAPITester records it under the update test's name).
C5_FailedCreateStopsChain ==
    \A dom \in Domains : \A i \in 1..Len(calls) :
        (IsCreate(i, dom) /\ ~Is2xx(calls[i].out.status)) =>
            /\ \A j \in 1..Len(calls) : ~IsFollowUp(j, dom)
            /\ FailedResults({CreateName(dom)} \cup DownstreamNames(dom)) # {}
            /\ \A k \in FailedResults({CreateName(dom)} \cup DownstreamNames(dom)) :
                   /\ test_results.details[k].name = CreateName(dom)
                   /\ \A m \in FailedResults({CreateName(dom)} \cup DownstreamNames(dom)) :
                          m = k

\* C5 (amended): when the outcome of the creation call is not ok (status 400
\* to 599, or status 0 for a transport failure), no follow-up call of the
\* chain is issued and exactly one failed TestResult is recorded for the
\* chain, the one of the creation.
C5_NotOkCreateStopsChain ==
    \A dom \in Domains : \A i \in 1..Len(calls) :
        (IsCreate(i, dom) /\ ~calls[i].out.ok) =>
            /\ \A j \in 1..Len(calls) : ~IsFollowUp(j, dom)
            /\ FailedResults({CreateName(dom)} \cup DownstreamNames(dom)) # {}
            /\ \A k \in FailedResults({CreateName(dom)} \cup DownstreamNames(dom)) :
                   /\ test_results.details[k].name = CreateName(dom)
                   /\ \A m \in FailedResults({CreateName(dom)} \cup DownstreamNames(dom)) :
                          m = k

\* C5 witness: a project creation was refused with 401 in a run that went on
\* to its end
C5_Witness ==
    /\ Finished
    /\ run.summary
    /\ \E i \in 1..Len(calls) : IsCreate(i, "projects") /\ calls[i].out.status = 401

\* C6: when creation succeeded and its body carries an id, every follow-up
\* call of the chain is addressed to that id and to no other identifier.
C6_FollowUpsAddressCreatedId ==
    \A dom \in Domains : \A i \in 1..Len(calls) : \A j \in 1..Len(calls) :
        (IsCreate(i, dom) /\ calls[i].out.ok /\ Truthy(ReturnedId(i))
            /\ IsFollowUp(j, dom))
        => /\ i < j
           /\ calls[j].req.path[2] = Format(ReturnedId(i))

\* C6 witness: the lead chain ran to its update on the string id "a7" and
\* the project chain on the integer id 42
C6_Witness ==
    /\ \E i \in 1..Len(calls) :
           /\ calls[i].req.method = "PUT"
           /\ calls[i].req.path = <<"leads", "a7">>
    /\ \E i \in 1..Len(calls) :
           /\ calls[i].req.method = "PUT"
           /\ calls[i].req.path = <<"projects", "42">>

\* C7 (as claimed): when creation returns 2xx with a body that is empty,
\* malformed or without an identifier, one failed TestResult is recorded for
\* each skipped downstream step of the chain (looked at in the runs that reach
\* their summary).
C7_SkippedStepsRecorded ==
    (Finished /\ run.summary) =>
        \A dom \in Domains : \A i \in 1..Len(calls) :
            (harness = "APITester" /\ IsCreate(i, dom)
                /\ Is2xx(calls[i].out.status) /\ ~Truthy(ReturnedId(i)))
            => \A name \in DownstreamNames(dom) : FailedResults({name}) # {}

\* C8 (as claimed): when the request carrying the forged bearer token is
\* answered with a 2xx status, a record with the message "Invalid JWT tokens
\* are accepted" is produced.
C8_ForgedTokenAcceptedIsRecorded ==
    \A i \in 1..Len(calls) :
        (IsForgedProbe(i) /\ Is2xx(calls[i].out.status))
        => "Invalid JWT tokens are accepted" \in RecordedTexts

\* C9 (as claimed): a run that printed its summary returns success exactly
\* when the success rate is at least 85% and no security probe was accepted.
C9_VerdictNeedsNoVulnerability ==
    (Finished /\ run.summary) =>
        (run.returned = "True"
            <=> (RateAtLeast(test_results, 85) /\ ~ProbeAccepted))

\* C10 (as claimed): the process exit code is 0 exactly when the run's
\* overall result is pass.
C10_ExitCodeFollowsVerdict ==
    Finished => (run.exit_code = 0 <=> run.returned = "True")

\* C11 (as claimed): the printed success rate is passed / (passed + failed) as
\* a percentage cut after its first decimal, and 0 when nothing was recorded.
C11_RateTruncated ==
    run.summary =>
        LET total == test_results.passed + test_results.failed IN
        IF total = 0 THEN run.rate = 0
        ELSE /\ run.rate * total =< test_results.passed * 1000
             /\ test_results.passed * 1000 < (run.rate + 1) * total

\* C11 (amended): the printed success rate is the one-decimal number nearest
\* to passed / (passed + failed) as a percentage, an exact half going to the
\* even decimal, and 0.0 when nothing was recorded; the summary is printed
\* without an error for every pair of counts.
C11_RateRounded ==
    /\ run.summary =>
           LET total == test_results.passed + test_results.failed
               diff == run.rate * total - test_results.passed * 1000
           IN  IF total = 0 THEN run.rate = 0
               ELSE /\ 2 * diff =< total
                    /\ -2 * diff =< total
                    /\ (2 * diff = total \/ -2 * diff = total) => run.rate % 2 = 0
    /\ pc \in {"returned", "exited"} => (run.summary /\ ~run.caught)

\* C11 witness: 2 passed and 1 failed are printed as 66.7
C11_Witness ==
    /\ run.summary
    /\ test_results.passed = 2
    /\ test_results.failed = 1
    /\ run.rate = 667

\* C12: the readiness line follows the success rate by fixed thresholds, one
\* line for every rate, and run_comprehensive_tests returns True exactly for
\* the first two of them.
C12_ReadinessTiers ==
    (run.summary /\ harness = "APITester") =>
        LET total == test_results.passed + test_results.failed
            pct100 == IF total = 0 THEN 0 ELSE test_results.passed * 100
            den == IF total = 0 THEN 1 ELSE total
        IN  /\ run.tier = "PRODUCTION READY" <=> pct100 >= 95 * den
            /\ run.tier = "MOSTLY READY" <=> (pct100 >= 85 * den /\ pct100 < 95 * den)
            /\ run.tier = "NEEDS WORK" <=> (pct100 >= 70 * den /\ pct100 < 85 * den)
            /\ run.tier = "NOT READY" <=> pct100 < 70 * den
            /\ run.returned = "True" <=> run.tier \in {"PRODUCTION READY", "MOSTLY READY"}

\* C12 witness: 17 of 20 passed is exactly 85%: mostly ready, and True
C12_Witness ==
    /\ run.summary
    /\ harness = "APITester"
    /\ test_results.passed = 17
    /\ test_results.failed = 3
    /\ run.tier = "MOSTLY READY"
    /\ run.returned = "True"

\* the calls test_endpoint made, and the list an endpoint was put in
IsScanCall(j) == calls[j].req.timeout = ScanTimeout
ScannedEndpoint(j) == [endpoint |-> calls[j].req.path, method |-> calls[j].req.method]
InMissing(ep) == \E k \in 1..Len(scan.missing) : scan.missing[k] = ep
InExisting(ep) ==
    \E k \in 1..Len(scan.existing) :
        scan.existing[k].endpoint = ep.endpoint /\ scan.existing[k].method = ep.method
ReportedStatus(j) ==
    IF Received(calls[j].resp).exc # "none" THEN 0 ELSE calls[j].resp.status

\* C13 (as claimed): a scanned endpoint is missing when its status is 404,
\* present but broken when it is 500 or above, and present for every other
\* status below 500, 0 included.
C13_ClassifiedByStatus ==
    \A j \in 1..Len(calls) : IsScanCall(j) =>
        LET st == ReportedStatus(j)
            r == calls[j].out
            ep == ScannedEndpoint(j)
        IN  /\ r.status_code = st
            /\ st = 404 => (~r.exists /\ InMissing(ep) /\ ~InExisting(ep))
            /\ st >= 500 => (r.exists /\ ~r.accessible /\ InExisting(ep) /\ ~InMissing(ep))
            /\ (st < 500 /\ st # 404) =>
                   (r.exists /\ r.accessible /\ InExisting(ep) /\ ~InMissing(ep))

\* C13 (amended): a scanned endpoint is missing when its status is 404 or 0
\* (the request raised), present but broken when it is 500 or above, and
\* present for every other status.
C13_ClassifiedByStatusOrFailure ==
    \A j \in 1..Len(calls) : IsScanCall(j) =>
        LET st == ReportedStatus(j)
            r == calls[j].out
            ep == ScannedEndpoint(j)
        IN  /\ r.status_code = st
            /\ st = 404 => (~r.exists /\ InMissing(ep) /\ ~InExisting(ep))
            /\ st = 0 => (~r.exists /\ ~r.accessible /\ InMissing(ep) /\ ~InExisting(ep))
            /\ st >= 500 => (r.exists /\ ~r.accessible /\ InExisting(ep) /\ ~InMissing(ep))
            /\ (st < 500 /\ st \notin {0, 404}) =>
                   (r.exists /\ r.accessible /\ InExisting(ep) /\ ~InMissing(ep))

\* C13 witness: a scan saw a 401, a 500 and a request that timed out
C13_Witness ==
    /\ harness = "marketplace_api_test"
    /\ \E j \in 1..Len(calls) : IsScanCall(j) /\ calls[j].out.status_code = 401
    /\ \E j \in 1..Len(calls) : IsScanCall(j) /\ calls[j].out.status_code = 500
    /\ \E j \in 1..Len(calls) : IsScanCall(j) /\ calls[j].resp = Unanswered

\* C14: the scan issues one request per endpoint of the list, in list order,
\* puts each endpoint in exactly one of the two lists, and reports existing /
\* total as a percentage with one decimal.
C14_CoverageScan ==
    harness = "marketplace_api_test" =>
        /\ pc = "scan" =>
               /\ Len(calls) = idx
               /\ Len(scan.existing) + Len(scan.missing) = idx - 1
        /\ pc \in {"report", "exited"} /\ Truthy(scan.token) =>
               /\ Len(calls) = Len(scan.endpoints) + 1
               /\ \A k \in 1..Len(scan.endpoints) :
                      /\ IsScanCall(k + 1)
                      /\ ScannedEndpoint(k + 1) = scan.endpoints[k]
                      /\ InExisting(scan.endpoints[k]) # InMissing(scan.endpoints[k])
               /\ Len(scan.existing) + Len(scan.missing) = Len(scan.endpoints)
        /\ scan.coverage # -1 =>
               LET diff == scan.coverage * Len(scan.endpoints)
                               - 1000 * Len(scan.existing)
               IN  /\ pc = "exited"
                   /\ 2 * diff =< Len(scan.endpoints)
                   /\ -2 * diff =< Len(scan.endpoints)

\* C14 witness: a 3-endpoint list answered 200, 200 and 404 reports 66.7% and
\* one missing endpoint
C14_Witness ==
    /\ pc = "exited"
    /\ Len(scan.endpoints) = 3
    /\ Len(calls) = 4
    /\ calls[2].out.status_code = 200
    /\ calls[3].out.status_code = 200
    /\ calls[4].out.status_code = 404
    /\ Len(scan.missing) = 1
    /\ scan.coverage = 667

\* C20 (as claimed): every network call carries a timeout, and no run waits
\* for an answer without limit.
C20_EveryCallBounded ==
    /\ \A j \in 1..Len(calls) : calls[j].req.timeout # NoTimeout
    /\ pc # "blocked"

\* the suites that depend on tokens: the roles whose tokens they use, the
\* first path segments of their calls, and the calls they made
Suites ==
    IF harness = "APITester"
    THEN {"user management", "project management", "lead management",
          "financial system", "materials and vendors", "employee management",
          "communication system"}
    ELSE {"critical"}
Needs(suite) ==
    IF suite \in {"financial system", "communication system"}
    THEN {"admin", "customer"} ELSE {"admin"}
Heads(suite) ==
    CASE suite = "user management" -> {"users"}
      [] suite = "project management" -> {"projects"}
      [] suite = "lead management" -> {"leads"}
      [] suite = "financial system" -> {"wallet", "quotations", "invoices"}
      [] suite = "materials and vendors" -> {"materials", "vendors"}
      [] suite = "employee management" -> {"employees"}
      [] suite = "communication system" -> {"complaints", "notifications"}
      [] OTHER -> {"projects", "leads", "wallet", "quotations", "employees"}
TokensMissing(suite) == \A role \in Needs(suite) : tokens[role] = Absent
SuiteCalled(suite) ==
    \E i \in 1..Len(calls) :
        /\ calls[i].req.path[1] \in Heads(suite)
        /\ ~IsForgedProbe(i)
        /\ ~IsAnonymousProbe(i)

\* C15 (as claimed): in a run that reaches its summary, a suite whose tokens
\* are all absent from the cache has issued none of its calls and is on
\* record as skipped.
C15_MissingTokenSkipsSuite ==
    (Finished /\ run.summary) =>
        \A suite \in Suites : TokensMissing(suite) =>
            /\ ~SuiteCalled(suite)
            /\ suite \in run.skipped

\* the login with invalid credentials among the calls, and its results
IsInvalidLogin(i) == calls[i].req.data = "invalid@test.com"
ResultsNamed(name) ==
    {k \in 1..Len(test_results.details) : test_results.details[k].name = name}

\* C16 (as claimed): the login with invalid credentials leaves exactly one
\* TestResult named "Invalid Login Rejection", passed whenever the answer is
\* non-2xx.
C16_InvalidLoginPassedWhenNon2xx ==
    \A i \in 1..Len(calls) : IsInvalidLogin(i) =>
        /\ Cardinality(ResultsNamed("Invalid Login Rejection")) = 1
        /\ ~Is2xx(calls[i].out.status) =>
               \A k \in ResultsNamed("Invalid Login Rejection") :
                   Truthy(test_results.details[k].passed)

\* C16 (amended): the login with invalid credentials leaves exactly one
\* TestResult named "Invalid Login Rejection", passed exactly when the answer
\* has status 401; no other step records a result of that name.
C16_InvalidLoginPassedWhen401 ==
    /\ Cardinality(ResultsNamed("Invalid Login Rejection")) =< 1
    /\ \A i \in 1..Len(calls) : IsInvalidLogin(i) =>
           /\ Cardinality(ResultsNamed("Invalid Login Rejection")) = 1
           /\ \A k \in ResultsNamed("Invalid Login Rejection") :
                  /\ Truthy(test_results.details[k].passed)
                         <=> calls[i].out.status = 401
                  /\ test_results.details[k].details
                         = PyStr("Status: " \o ToString(calls[i].out.status))

\* C16 witness: the invalid login was answered 404 and recorded as failed
C16_Witness ==
    \E i \in 1..Len(calls) :
        /\ IsInvalidLogin(i)
        /\ calls[i].out.status = 404
        /\ \E k \in ResultsNamed("Invalid Login Rejection") :
               ~Truthy(test_results.details[k].passed)

\* C17 (as claimed): the forged-token probe and the probe without
\* Authorization are recorded as passed whenever the answer is non-2xx, and
\* as failed only when the request is accepted.
C17_ProbesPassOnRejection ==
    \A i \in 1..Len(calls) :
        /\ IsForgedProbe(i) =>
               \A k \in ResultsNamed("Invalid Token Rejected") :
                   Truthy(test_results.details[k].passed) <=> ~Is2xx(calls[i].out.status)
        /\ IsAnonymousProbe(i) =>
               \A k \in ResultsNamed("Unauthorized Access Blocked") :
                   Truthy(test_results.details[k].passed) <=> ~Is2xx(calls[i].out.status)

\* C18 (as claimed): every run that ends has printed the summary report,
\* whatever the backend answered.
C18_SummaryAlwaysPrinted ==
    pc \in {"returned", "exited"} => run.summary

\* C19 (as claimed): a run that was interrupted has reported a summary of the
\* results recorded so far.
C19_InterruptReportsPartialSummary ==
    (pc = "interrupted" /\ Len(test_results.details) > 0) => run.summary

\* C21 (as claimed): the ok flag of an outcome is true exactly when its
\* status is in the 2xx range.
C21_OkExactly2xx ==
    (pc = "responded" /\ ~outcome.raised) =>
        (outcome.ok <=> Is2xx(outcome.status))

\* C21 (amended): the ok flag of an outcome follows from its status alone: it
\* is true exactly for a status from 100 to 399 (1xx, 2xx and 3xx), and false
\* for status 0 and for every 4xx and 5xx status; the status is 0 exactly
\* when the outcome carries an error instead of data.
C21_OkExactlyBelow400 ==
    (pc = "responded" /\ ~outcome.raised) =>
        /\ outcome.ok <=> (100 =< outcome.status /\ outcome.status < 400)
        /\ outcome.status = 0 <=> ~outcome.has_data
        /\ outcome.has_data => outcome.status = request.resp.status

\* C21 witness: a 304 answer came back as an outcome that is ok
C21_Witness ==
    /\ pc = "responded"
    /\ request.resp.exc = "none"
    /\ request.resp.status = 304
    /\ outcome.status = 304
    /\ outcome.ok

\* C22 (as claimed): every HTTP call a suite issued has left exactly one
\* TestResult, so the result sequence is as long as the sequence of calls.
C22_OneResultPerCall ==
    Len(test_results.details) = Len(calls)

\* C23: a PUT on /projects/{id} or /leads/{id} is issued only after a
\* creation call of that domain succeeded in the same run and returned that
\* id; no update is attempted before creation succeeds.
C23_UpdateOnlyAfterCreation ==
    \A dom \in Domains : \A j \in 1..Len(calls) :
        (calls[j].req.method = "PUT" /\ IsFollowUp(j, dom))
        => \E i \in 1..(j - 1) :
               /\ IsCreate(i, dom)
               /\ calls[i].out.ok
               /\ Truthy(ReturnedId(i))
               /\ calls[j].req.path[2] = Format(ReturnedId(i))

\* the classification of the probe with number n of SecurityProbes as its own
\* answer alone decides it
ProbeRejected(n) ==
    LET resp == request.answers[n] IN
    CASE n = 1 -> resp.exc = "none" /\ resp.status = 401
      [] n = 2 -> resp.exc = "none" /\ resp.status = 403
      [] n = 3 -> resp.exc # "none" \/ resp.status >= 400
      [] OTHER -> resp.exc = "none" /\ resp.status = 404

\* C24: in whatever order the four security probes run, the result recorded
\* for each probe is decided by that probe's own answer alone, and the pass
\* and fail counts after the last probe are those of the four answers.
C24_ProbesOrderInsensitive ==
    pc \in {"probe", "probed"} =>
        /\ Len(test_results.details) = idx - 1
        /\ \A k \in 1..Len(test_results.details) :
               LET n == request.order[k] IN
               /\ test_results.details[k].name = ProbeCall(SecurityProbes[n]).name
               /\ Truthy(test_results.details[k].passed) <=> ProbeRejected(n)
        /\ pc = "probed" =>
               /\ test_results.passed =
                      Cardinality({n \in 1..Len(SecurityProbes) : ProbeRejected(n)})
               /\ test_results.failed =
                      Cardinality({n \in 1..Len(SecurityProbes) : ~ProbeRejected(n)})

\* C24 witness: the probes ran in the reverse of the code's order; the
\* unknown-route probe came first and failed, the anonymous probe came last
\* and passed
C24_Witness ==
    /\ pc = "probed"
    /\ request.order = [k \in 1..4 |-> 5 - k]
    /\ test_results.details[1].name = "404 Error Handling"
    /\ ~Truthy(test_results.details[1].passed)
    /\ test_results.details[4].name = "Unauthorized Access Blocked"
    /\ Truthy(test_results.details[4].passed)
    /\ test_results.passed = 2

\* call j belongs to the authentication suite: a registration or a login
\* other than the SQL-injection probe
IsAuthenticationCall(j) ==
    calls[j].req.path[1] = "auth" /\ ~IsSqlProbe(j)

\* the token of request j is one the cache holds or the forged string
UsesCachedToken(j) ==
    calls[j].req.has_auth =>
        \/ calls[j].req.bearer = Format(ForgedToken)
        \/ \E r \in Roles : tokens[r] # Absent /\ calls[j].req.bearer = Format(tokens[r])
AfterRosterLogins(j) ==
    \A k \in 1..Len(Roster) : \E i \in 1..(j - 1) : IsLogin(i, Roster[k])

\* C25 (as claimed): the roster authentication runs first: a request of any
\* other suite is issued only after a login was attempted for every role of
\* the roster, and a request that carries a token carries a cached one (or
\* the forged string of the probe).
C25_AuthenticationRunsFirst ==
    \A j \in 1..Len(calls) :
        ~IsAuthenticationCall(j) => (AfterRosterLogins(j) /\ UsesCachedToken(j))

\* C25 (amended): the health checks apart, a request of any suite other than
\* authentication is issued only after a login was attempted for every role
\* of the roster, and a request that carries a token carries a cached one
\* (or the forged string of the probe).
C25_AuthenticationBeforeTokenSuites ==
    \A j \in 1..Len(calls) :
        (~IsAuthenticationCall(j) /\ calls[j].req.path[1] # "health")
        => (AfterRosterLogins(j) /\ UsesCachedToken(j))

\* C25 witness: an APITester run that began with the health check, then
\* logged in, then updated a project with the admin token and ran the
\* forged-token probe
C25_Witness ==
    /\ harness = "APITester"
    /\ Finished
    /\ calls[1].req.path = <<"health">>
    /\ \E j \in 1..Len(calls) :
           /\ calls[j].req.method = "PUT"
           /\ IsFollowUp(j, "projects")
           /\ calls[j].req.bearer = "tok-admin"
    /\ \E j \in 1..Len(calls) : IsForgedProbe(j)

\* the roster logins of a role, the token in the body of the answer to call i
\* and the results of the role's login
LoginsOf(r) == {i \in 1..Len(calls) : IsLogin(i, r)}
ReturnedToken(i) ==
    LET v == Get(DataOrEmpty(calls[i].out), "token") IN
    IF v.k = "raise" THEN None ELSE v
LoginPassed(r) ==
    \E k \in ResultsNamed("Login " \o r) : Truthy(test_results.details[k].passed)

\* an entry of the cache changes only from absent to a token, in the login
\* step of its own role
TokenWrittenOnce ==
    [][\A r \in Roles :
          tokens'[r] # tokens[r] =>
              /\ tokens[r] = Absent
              /\ pc \in {"auth_login", "authenticate"}
              /\ r = Roster[idx]]_vars

\* C26 (as claimed): for every role of the roster, tokens contains the role
\* exactly when the TestResult "Login <role>" is passed; a cached token is
\* the non-empty token of a 2xx login response for that role; each entry is
\* written at most once and only by the authentication.
C26_CacheAgreesWith2xxLogins ==
    /\ [](\A r \in Roles :
            /\ (\E k \in 1..Len(Roster) : Roster[k] = r) =>
                   (tokens[r] # Absent <=> LoginPassed(r))
            /\ tokens[r] # Absent =>
                   \E i \in LoginsOf(r) :
                       /\ Is2xx(calls[i].out.status)
                       /\ Truthy(ReturnedToken(i))
                       /\ tokens[r] = ReturnedToken(i))
    /\ TokenWrittenOnce

\* C26 (amended): tokens contains a role exactly when the one login of that
\* role was ok (status below 400) with a non-empty token in its body, and
\* the cached token is that token; in APITester this is exactly when the
\* TestResult "Login <role>" is passed (FocusedAPITester records no login
\* result); each entry is written at most once and only by the
\* authentication.
C26_CacheAgreesWithOkLogins ==
    /\ [](\A r \in Roles :
            /\ Cardinality(LoginsOf(r)) =< 1
            /\ tokens[r] # Absent <=>
                   \E i \in LoginsOf(r) :
                       /\ calls[i].out.ok
                       /\ Truthy(ReturnedToken(i))
                       /\ tokens[r] = ReturnedToken(i)
            /\ harness = "APITester" => (tokens[r] # Absent <=> LoginPassed(r))
            /\ harness = "FocusedAPITester" => ~LoginPassed(r))
    /\ TokenWrittenOnce

\* C26 witness: after the authentication of APITester the admin login has
\* passed and its token is cached, the customer login has failed and has
\* left no entry
C26_Witness ==
    /\ harness = "APITester"
    /\ pc = "user_management"
    /\ tokens["admin"] = PyStr("tok-admin")
    /\ LoginPassed("admin")
    /\ tokens["customer"] = Absent
    /\ LoginsOf("customer") # {}
    /\ ~LoginPassed("customer")

\* the role whose token the suites pass with request j
TokenRole(j) ==
    IF \/ calls[j].req.path[1] \in {"wallet", "notifications"}
       \/ (calls[j].req.method = "POST" /\ calls[j].req.path = <<"complaints">>)
    THEN "customer" ELSE "admin"

\* C27: a request carries an Authorization header exactly when it carries a
\* non-empty bearer value, and that value is the forged probe string or the
\* token in the body of an ok login made earlier in the same run, the one
\* cached for the role the suite needs; a suite whose token is missing
\* sends no request with the header.
C27_BearerFromLoginOrForged ==
    \A j \in 1..Len(calls) :
        /\ calls[j].req.has_auth <=> calls[j].req.bearer # ""
        /\ calls[j].req.has_auth => calls[j].req.bearer # "None"
        /\ (calls[j].req.has_auth /\ ~IsForgedProbe(j)) =>
               /\ tokens[TokenRole(j)] # Absent
               /\ calls[j].req.bearer = Format(tokens[TokenRole(j)])
               /\ \E i \in 1..(j - 1) :
                      /\ IsLogin(i, TokenRole(j))
                      /\ calls[i].out.ok
                      /\ Truthy(ReturnedToken(i))
                      /\ calls[j].req.bearer = Format(ReturnedToken(i))

\* C27 witness: in a finished APITester run the admin login failed and the
\* customer login succeeded: the wallet request carried the customer token,
\* the forged probe its string, and every other request went without header
C27_Witness ==
    /\ harness = "APITester"
    /\ Finished
    /\ tokens["admin"] = Absent
    /\ \E j \in 1..Len(calls) :
           calls[j].req.path = <<"wallet">> /\ calls[j].req.bearer = "tok-customer"
    /\ \E j \in 1..Len(calls) : IsForgedProbe(j)
    /\ \A j \in 1..Len(calls) :
           calls[j].req.has_auth => (IsForgedProbe(j) \/ TokenRole(j) = "customer")

\* the results an APITester run records when no request is answered
UnreachableResults ==
    << "System Health Check", "Database Health Check", "User Registration",
       "Login admin", "Login superadmin", "Login customer", "Login designer",
       "Login vendor", "Login pm", "Login finance", "Invalid Login Rejection",
       "Forgot Password", "Unauthorized Access Blocked", "Invalid Token Rejected",
       "SQL Injection Blocked", "404 Error Handling" >>

\* C28: with the backend unreachable an APITester run ends (unless it is
\* interrupted), and when it has ended it has raised no internal error, has
\* recorded exactly 16 results (2 health, 10 authentication, 4 security, none
\* of the token-dependent suites) of which only "SQL Injection Blocked" is
\* passed, has printed the summary, returned False and exited with code 1.
C28_UnreachableBackendRun ==
    /\ []((backend = "down" /\ harness = "APITester" /\ pc = "exited") =>
            /\ ~run.caught
            /\ Len(test_results.details) = 16
            /\ \A k \in 1..16 :
                   /\ test_results.details[k].name = UnreachableResults[k]
                   /\ Truthy(test_results.details[k].passed) <=>
                          UnreachableResults[k] = "SQL Injection Blocked"
            /\ test_results.passed = 1
            /\ test_results.failed = 15
            /\ \A j \in 1..Len(calls) :
                   /\ calls[j].out.status = 0
                   /\ calls[j].req.has_auth => IsForgedProbe(j)
            /\ run.summary
            /\ run.returned = "False"
            /\ run.exit_code = 1)
    /\ (backend = "down" /\ harness = "APITester") ~> (pc \in {"exited", "interrupted"})

\* C28 witness: an APITester run against the unreachable backend has exited
\* with 16 results, one of them passed
C28_Witness ==
    /\ backend = "down"
    /\ harness = "APITester"
    /\ pc = "exited"
    /\ Len(calls) = 16
    /\ Len(test_results.details) = 16
    /\ test_results.passed = 1
    /\ run.exit_code = 1

====
